---- MODULE Spec2Model ----
(***************************************************************************)
(* State machine of the App component of src/App.tsx: the view router      *)
(* (currentTab, renderContent), the asset store and selection (assets,     *)
(* selectedAsset) and the asynchronous discovery handler handleSearch.     *)
(*                                                                         *)
(* React runs every handler to completion on one thread.  The only         *)
(* suspension point is the await at App.tsx:52, so handleSearch is two     *)
(* actions: the part before the await (handleSearch) and the continuation  *)
(* that runs when the provider's promise settles (handleSearchResume).     *)
(*                                                                         *)
(* The theme (isDarkMode and the persisted preference) shares no variable  *)
(* with the other handlers.  Spec runs the view router, the store and the  *)
(* discovery with the theme at rest; ThemeSpec starts from the state after *)
(* construction and adds the theme's effect and toggle.                    *)
(***************************************************************************)
EXTENDS Integers, Sequences, FiniteSets, TLC

\* Bounds of the model.
MaxCalls == 2      \* discovery calls issued in one run
MaxNow == 1        \* largest value of the clock read by Date.now()

VARIABLES
    currentTab,     \* App.tsx:23  useState('home')
    selectedAsset,  \* App.tsx:24  useState<Asset | null>(null)
    assets,         \* App.tsx:25  useState<Asset[]>(initialAssets)
    isSearching,    \* App.tsx:26  useState(false)
    isSidebarOpen,  \* App.tsx:27  useState(false)
    pending,        \* provider calls awaited at App.tsx:52 and not yet settled
    issued,         \* number of provider calls started so far
    now,            \* the value Date.now() returns (App.tsx:64)
    currentUser,    \* the value db.getCurrentUser() returns (App.tsx:90)
    apiKeySet,      \* whether new GoogleGenAI({apiKey}) constructs (App.tsx:51)
    isDarkMode,     \* App.tsx:28  useState(() => ...)
    storedTheme,    \* localStorage.getItem('theme') (App.tsx:30,39,42)
    prefersDark,    \* matchMedia('(prefers-color-scheme: dark)').matches (App.tsx:31)
    hasWindow,      \* typeof window !== 'undefined' (App.tsx:29)
    mounted         \* the effect of App.tsx:36-44 has run after the first render

vars == <<currentTab, selectedAsset, assets, isSearching, isSidebarOpen,
          pending, issued, now, currentUser, apiKeySet,
          isDarkMode, storedTheme, prefersDark, hasWindow, mounted>>

themeVars == <<isDarkMode, storedTheme, prefersDark, hasWindow, mounted>>

-----------------------------------------------------------------------------
\* Views

\* The cases of the switch in renderContent.
Views == {"home", "map", "analysis", "news", "gov", "login", "admin",
          "initiatives", "simulator", "report"}

\* Names a caller of setCurrentTab may pass: the ten views and one name
\* outside the enumeration (setCurrentTab takes any string).
TabNames == Views \cup {"settings"}

\* Session values: no user, or a user with a role.
NoUser == [present |-> FALSE, role |-> ""]
Users == {[present |-> TRUE, role |-> "admin"],
          [present |-> TRUE, role |-> "engineer"]}

\* user?.role === 'admin'
isAdmin(user) == user.present /\ user.role = "admin"

\* Faulty variant of renderContent: the default case renders nothing.
renderContentNoDefault ==
    CASE currentTab = "home" -> "LandingPage"
      [] currentTab = "map" -> "MapComponent"
      [] currentTab = "analysis" -> "AnalysisPage"
      [] currentTab = "news" -> "NewsPage"
      [] currentTab = "gov" -> "GovPortalPage"
      [] currentTab = "login" -> "LoginPage"
      [] currentTab = "admin" ->
            IF isAdmin(currentUser) THEN "AdminDashboardPage" ELSE "LoginPage"
      [] currentTab = "initiatives" -> "InitiativesPage"
      [] currentTab = "simulator" -> "SimulatorPage"
      [] currentTab = "report" -> "ReportPage"
      [] OTHER -> "Nothing"

\* Faulty variant of renderContent: the admin case without the role check.
renderContentNoGate ==
    CASE currentTab = "home" -> "LandingPage"
      [] currentTab = "map" -> "MapComponent"
      [] currentTab = "analysis" -> "AnalysisPage"
      [] currentTab = "news" -> "NewsPage"
      [] currentTab = "gov" -> "GovPortalPage"
      [] currentTab = "login" -> "LoginPage"
      [] currentTab = "admin" -> "AdminDashboardPage"
      [] currentTab = "initiatives" -> "InitiativesPage"
      [] currentTab = "simulator" -> "SimulatorPage"
      [] currentTab = "report" -> "ReportPage"
      [] OTHER -> "LandingPage"

\* The page renderContent returns for the current tab and session.
renderContent ==
    CASE currentTab = "home" -> "LandingPage"
      [] currentTab = "map" -> "MapComponent"
      [] currentTab = "analysis" -> "AnalysisPage"
      [] currentTab = "news" -> "NewsPage"
      [] currentTab = "gov" -> "GovPortalPage"
      [] currentTab = "login" -> "LoginPage"
      [] currentTab = "admin" ->
            IF isAdmin(currentUser) THEN "AdminDashboardPage" ELSE "LoginPage"
      [] currentTab = "initiatives" -> "InitiativesPage"
      [] currentTab = "simulator" -> "SimulatorPage"
      [] currentTab = "report" -> "ReportPage"
      [] OTHER -> "LandingPage"

-----------------------------------------------------------------------------
\* Assets

\* An asset is its id and its name; the other fields of a discovered asset
\* are the same literals for every asset (App.tsx:66-76) and no handler
\* reads or writes them.  An id is the sequence of its characters.
null == [id |-> <<>>, name |-> ""]

\* The bootstrap data (mockAssets).
initialAssets == << [id |-> <<"1">>, name |-> "Bridge X"],
                    [id |-> <<"2">>, name |-> "NH-48"] >>

\* An asset record that is not in the store: the gov portal and the map are
\* handed setSelectedAsset itself, which takes any Asset.
foreignAsset == [id |-> <<"g", "9">>, name |-> "Gov Depot"]

\* Decimal digits of a natural number, as String(n) writes them.
RECURSIVE toDigits(_)
toDigits(n) ==
    LET d == <<"0", "1", "2", "3", "4", "5", "6", "7", "8", "9">>
    IN IF n < 10 THEN <<d[n + 1]>> ELSE toDigits(n \div 10) \o <<d[(n % 10) + 1]>>

\* `ai-${Date.now()}-${index}`
assetId(t, index) == <<"a", "i", "-">> \o toDigits(t) \o <<"-">> \o toDigits(index)

\* Chunks of a provider response: maps is the grounding payload, title its
\* title ("" when the payload has no title).
plainChunk == [maps |-> FALSE, title |-> ""]
mapsChunk(title) == [maps |-> TRUE, title |-> title]

\* What the awaited call can produce: a rejection or an exception raised on
\* the way (kind "error"), a response without groundingChunks (hasChunks
\* FALSE), or a response with a chunk list.
Responses ==
    { [kind |-> "error", hasChunks |-> FALSE, chunks |-> <<>>],
      [kind |-> "ok", hasChunks |-> FALSE, chunks |-> <<>>] }
    \cup
    { [kind |-> "ok", hasChunks |-> TRUE, chunks |-> cs] :
        cs \in { <<>>,
                 <<plainChunk>>,
                 <<mapsChunk("Bridge X")>>,
                 <<plainChunk, mapsChunk("")>>,
                 <<mapsChunk("Bridge X"), mapsChunk("Bridge Y")>> } }

\* chunk.maps.title || "Discovered Infra"
assetName(chunk) == IF chunk.title = "" THEN "Discovered Infra" ELSE chunk.title

\* The forEach of App.tsx:61-79: one asset per chunk that has maps, in
\* order, index being the chunk's position in the response (from 0).
RECURSIVE newAssetsFrom(_, _, _)
newAssetsFrom(chunks, t, i) ==
    IF i > Len(chunks) THEN <<>>
    ELSE (IF chunks[i].maps
            THEN << [id |-> assetId(t, i - 1), name |-> assetName(chunks[i])] >>
            ELSE <<>>)
         \o newAssetsFrom(chunks, t, i + 1)

\* Faulty variant of newAssetsOf: a chunk named like an asset of the store
\* is dropped.
newAssetsOfDeduplicated(r, t) ==
    IF r.kind = "ok" /\ r.hasChunks /\ Len(r.chunks) > 0
    THEN SelectSeq(newAssetsFrom(r.chunks, t, 1),
                   LAMBDA a : \A i \in DOMAIN assets : assets[i].name # a.name)
    ELSE <<>>

\* newAssets as it stands at App.tsx:80; empty when the guard of App.tsx:59
\* fails or the try block was left by an exception.
newAssetsOf(r, t) ==
    IF r.kind = "ok" /\ r.hasChunks /\ Len(r.chunks) > 0
    THEN newAssetsFrom(r.chunks, t, 1)
    ELSE <<>>

\* Faulty variant of appendAssets: the batch is appended to the store as it
\* was when the page loaded, not to the store as it is.
appendAssetsStale(prev, newAssets) == initialAssets \o newAssets

\* Faulty variant of appendAssets: the new batch replaces the store.
appendAssetsReplace(prev, newAssets) == newAssets

\* prev => [...prev, ...newAssets]
appendAssets(prev, newAssets) == prev \o newAssets

-----------------------------------------------------------------------------
\* Theme

\* localStorage.getItem('theme') when the key is absent.
noItem == "<null>"

\* Values the key can hold when the page loads: absent, what the effect of
\* App.tsx:36-44 writes, and a value it never writes.
StoredThemes == {noItem, "dark", "light", "sepia"}

\* Faulty variant of useStateInit: the OS preference is consulted although a
\* preference is persisted.
useStateInitNoAbsenceCheck(w, stored, os) ==
    IF w THEN (stored = "dark") \/ os ELSE FALSE

\* The initializer of App.tsx:28-34.
useStateInit(w, stored, os) ==
    IF w THEN (stored = "dark") \/ (stored = noItem /\ os) ELSE FALSE

\* What the effect of App.tsx:36-44 persists for a theme value.
themeItem(dark) == IF dark THEN "dark" ELSE "light"

\* Faulty variant of themeAfterToggle: the value before the flip is persisted.
themeAfterToggleStale(dark) == [value |-> ~dark, stored |-> themeItem(dark)]

\* toggleTheme (App.tsx:46) followed by the effect its re-render runs:
\* the new value and what is persisted for it.
themeAfterToggle(dark) == [value |-> ~dark, stored |-> themeItem(~dark)]

-----------------------------------------------------------------------------
\* Initial state

\* The useState initial values of App.tsx:23-27, no call issued.
InitApp ==
    /\ currentTab = "home"
    /\ selectedAsset = null
    /\ assets = initialAssets
    /\ isSearching = FALSE
    /\ isSidebarOpen = FALSE
    /\ pending = {}
    /\ issued = 0
    /\ now = 0
    /\ currentUser \in {NoUser} \cup Users
    /\ apiKeySet \in BOOLEAN

\* The theme after the first render, before its effect has run: the
\* initializer has read the persisted preference and the OS preference.
\* Without a window there is neither.
InitTheme ==
    /\ hasWindow \in BOOLEAN
    /\ storedTheme \in (IF hasWindow THEN StoredThemes ELSE {noItem})
    /\ prefersDark \in (IF hasWindow THEN BOOLEAN ELSE {FALSE})
    /\ isDarkMode = useStateInit(hasWindow, storedTheme, prefersDark)
    /\ mounted = FALSE

\* The theme of a page in a browser whose light theme has been persisted by
\* the first effect run.
ThemeAtRest ==
    /\ hasWindow = TRUE
    /\ storedTheme = "light"
    /\ prefersDark = FALSE
    /\ isDarkMode = FALSE
    /\ mounted = TRUE

\* Initial states of Spec: the theme is at rest.  No handler of Next reads or
\* writes a theme variable, and ThemeSpec below runs the same handlers
\* together with the theme's own.
Init == InitApp /\ ThemeAtRest

\* Initial states of ThemeSpec: the state after construction.
ThemeInit == InitApp /\ InitTheme

-----------------------------------------------------------------------------
\* Actions

discoveryVars == <<pending, issued>>
envVars == <<now, currentUser, apiKeySet>>

\* The clock advances.
Tick ==
    /\ now < MaxNow
    /\ now' = now + 1
    /\ UNCHANGED <<currentTab, selectedAsset, assets, isSearching, isSidebarOpen,
                   pending, issued, currentUser, apiKeySet, themeVars>>

\* The session provider's answer changes (a login, a logout).
SessionChange(u) ==
    /\ u # currentUser
    /\ currentUser' = u
    /\ UNCHANGED <<currentTab, selectedAsset, assets, isSearching, isSidebarOpen,
                   pending, issued, now, apiKeySet, themeVars>>

\* Faulty variant of onTabChange: a view change clears the selection.
onTabChangeClearsSelection(t) ==
    /\ currentTab' = t
    /\ selectedAsset' = null
    /\ UNCHANGED <<assets, isSearching, isSidebarOpen,
                   discoveryVars, envVars, themeVars>>

\* Faulty variant of onTabChange: a request for admin is turned into login.
onTabChangeRedirect(t) ==
    /\ currentTab' = IF t = "admin" THEN "login" ELSE t
    /\ UNCHANGED <<selectedAsset, assets, isSearching, isSidebarOpen,
                   discoveryVars, envVars, themeVars>>

\* Navbar and Sidebar: onTabChange={setCurrentTab}.
onTabChange(t) ==
    /\ currentTab' = t
    /\ UNCHANGED <<selectedAsset, assets, isSearching, isSidebarOpen,
                   discoveryVars, envVars, themeVars>>

\* Navbar: onToggleSidebar={() => setIsSidebarOpen(true)}.
onToggleSidebar ==
    /\ isSidebarOpen' = TRUE
    /\ UNCHANGED <<currentTab, selectedAsset, assets, isSearching,
                   discoveryVars, envVars, themeVars>>

\* Sidebar: onClose={() => setIsSidebarOpen(false)}.
onCloseSidebar ==
    /\ isSidebarOpen' = FALSE
    /\ UNCHANGED <<currentTab, selectedAsset, assets, isSearching,
                   discoveryVars, envVars, themeVars>>

\* LandingPage (case 'home' and the default case): onExplore.
onExplore ==
    /\ renderContent = "LandingPage"
    /\ currentTab' = "map"
    /\ UNCHANGED <<selectedAsset, assets, isSearching, isSidebarOpen,
                   discoveryVars, envVars, themeVars>>

\* LandingPage: onHowItWorks.
onHowItWorks ==
    /\ renderContent = "LandingPage"
    /\ currentTab' = "analysis"
    /\ UNCHANGED <<selectedAsset, assets, isSearching, isSidebarOpen,
                   discoveryVars, envVars, themeVars>>

\* MapComponent: onSelectAsset={setSelectedAsset}.
onSelectAssetMap(a) ==
    /\ currentTab = "map"
    /\ selectedAsset' = a
    /\ UNCHANGED <<currentTab, assets, isSearching, isSidebarOpen,
                   discoveryVars, envVars, themeVars>>

\* AssetPanel: onClose={() => setSelectedAsset(null)}.
onClose ==
    /\ currentTab = "map"
    /\ selectedAsset' = null
    /\ UNCHANGED <<currentTab, assets, isSearching, isSidebarOpen,
                   discoveryVars, envVars, themeVars>>

\* GovPortalPage: onSelectAsset={(a) => { setSelectedAsset(a); setCurrentTab('map'); }}.
onSelectAssetGov(a) ==
    /\ currentTab = "gov"
    /\ selectedAsset' = a
    /\ currentTab' = "map"
    /\ UNCHANGED <<assets, isSearching, isSidebarOpen, discoveryVars, envVars, themeVars>>

\* Faulty variant of onLoginSuccess: the role of the user is not looked at.
onLoginSuccessAnyRole(u) ==
    /\ renderContent = "LoginPage"
    /\ currentTab' = "admin"
    /\ UNCHANGED <<selectedAsset, assets, isSearching, isSidebarOpen,
                   discoveryVars, envVars, themeVars>>

\* LoginPage: onLoginSuccess.  Under case 'login' the callback is
\* (u) => setCurrentTab(u.role === 'admin' ? 'admin' : 'home'); under case
\* 'admin' without an admin session it is () => setCurrentTab('admin').
onLoginSuccess(u) ==
    /\ renderContent = "LoginPage"
    /\ currentTab' = IF currentTab = "login"
                       THEN (IF u.role = "admin" THEN "admin" ELSE "home")
                       ELSE "admin"
    /\ UNCHANGED <<selectedAsset, assets, isSearching, isSidebarOpen,
                   discoveryVars, envVars, themeVars>>

\* MapComponent: onSearchInfrastructure={handleSearch}, up to the await.
\* setIsSearching(true), then the client is constructed and the provider is
\* called.  If the constructor throws, catch and finally run at once and
\* isSearching is false again when the handler returns.
handleSearch ==
    /\ currentTab = "map"
    /\ issued < MaxCalls
    /\ IF apiKeySet
         THEN /\ isSearching' = TRUE
              /\ issued' = issued + 1
              /\ pending' = pending \cup {issued + 1}
         ELSE /\ isSearching' = FALSE
              /\ UNCHANGED <<issued, pending>>
    /\ UNCHANGED <<currentTab, selectedAsset, assets, isSidebarOpen, envVars, themeVars>>

\* Faulty variant of handleSearchResume: isSearching is reset on the success path
\* only (no finally).
handleSearchResumeNoFinally(c, r) ==
    /\ c \in pending
    /\ pending' = pending \ {c}
    /\ LET newAssets == newAssetsOf(r, now)
       IN IF Len(newAssets) > 0
            THEN /\ assets' = appendAssets(assets, newAssets)
                 /\ selectedAsset' = newAssets[1]
                 /\ currentTab' = "map"
                 /\ isSearching' = FALSE
            ELSE UNCHANGED <<assets, selectedAsset, currentTab, isSearching>>
    /\ UNCHANGED <<isSidebarOpen, issued, envVars, themeVars>>

\* Faulty variant of handleSearchResume: an empty batch still selects and routes.
handleSearchResumeNoGuard(c, r) ==
    /\ c \in pending
    /\ pending' = pending \ {c}
    /\ LET newAssets == newAssetsOf(r, now)
       IN /\ assets' = appendAssets(assets, newAssets)
          /\ selectedAsset' = IF Len(newAssets) > 0 THEN newAssets[1] ELSE null
          /\ currentTab' = "map"
    /\ isSearching' = FALSE
    /\ UNCHANGED <<isSidebarOpen, issued, envVars, themeVars>>

\* Faulty variant of handleSearchResume: the last new asset is selected.
handleSearchResumeSelectLast(c, r) ==
    /\ c \in pending
    /\ pending' = pending \ {c}
    /\ LET newAssets == newAssetsOf(r, now)
       IN IF Len(newAssets) > 0
            THEN /\ assets' = appendAssets(assets, newAssets)
                 /\ selectedAsset' = newAssets[Len(newAssets)]
                 /\ currentTab' = "map"
            ELSE UNCHANGED <<assets, selectedAsset, currentTab>>
    /\ isSearching' = FALSE
    /\ UNCHANGED <<isSidebarOpen, issued, envVars, themeVars>>

\* handleSearch from the await on: call c settles with r.
handleSearchResume(c, r) ==
    /\ c \in pending
    /\ pending' = pending \ {c}
    /\ LET newAssets == newAssetsOf(r, now)
       IN IF Len(newAssets) > 0
            THEN /\ assets' = appendAssets(assets, newAssets)
                 /\ selectedAsset' = newAssets[1]
                 /\ currentTab' = "map"
            ELSE UNCHANGED <<assets, selectedAsset, currentTab>>
    /\ isSearching' = FALSE
    /\ UNCHANGED <<isSidebarOpen, issued, envVars, themeVars>>

\* The first run of the effect of App.tsx:36-44, after the first render
\* (effects run in a browser only).
themeEffect ==
    /\ hasWindow
    /\ ~mounted
    /\ storedTheme' = themeItem(isDarkMode)
    /\ mounted' = TRUE
    /\ UNCHANGED <<isDarkMode, prefersDark, hasWindow>>
    /\ UNCHANGED <<currentTab, selectedAsset, assets, isSearching, isSidebarOpen,
                   discoveryVars, envVars>>

\* Navbar: toggleTheme={toggleTheme}; the re-render runs the effect.
toggleTheme ==
    /\ mounted
    /\ isDarkMode' = themeAfterToggle(isDarkMode).value
    /\ storedTheme' = themeAfterToggle(isDarkMode).stored
    /\ UNCHANGED <<prefersDark, hasWindow, mounted>>
    /\ UNCHANGED <<currentTab, selectedAsset, assets, isSearching, isSidebarOpen,
                   discoveryVars, envVars>>

\* Assets a select callback can be called with: those the store holds and
\* one it does not hold.
Selectable == {assets[i] : i \in DOMAIN assets} \cup {foreignAsset}

Next ==
    \/ Tick
    \/ \E u \in {NoUser} \cup Users : SessionChange(u)
    \/ \E t \in TabNames : onTabChange(t)
    \/ onToggleSidebar
    \/ onCloseSidebar
    \/ onExplore
    \/ onHowItWorks
    \/ \E a \in Selectable : onSelectAssetMap(a)
    \/ onClose
    \/ \E a \in Selectable : onSelectAssetGov(a)
    \/ \E u \in Users : onLoginSuccess(u)
    \/ handleSearch
    \/ \E c \in 1..MaxCalls : \E r \in Responses : handleSearchResume(c, r)

Spec == Init /\ [][Next]_vars

\* Every provider call settles.
LiveSpec ==
    Spec /\ \A c \in 1..MaxCalls : WF_vars(\E r \in Responses : handleSearchResume(c, r))

\* The theme's effect and toggle together with the handlers of Next, which
\* run once the page is mounted.  The clock stands still here: it is read
\* for asset ids only (App.tsx:64), and Spec advances it.
ThemeNext ==
    \/ themeEffect
    \/ toggleTheme
    \/ mounted /\ \E u \in {NoUser} \cup Users : SessionChange(u)
    \/ mounted /\ \E t \in TabNames : onTabChange(t)
    \/ mounted /\ onToggleSidebar
    \/ mounted /\ onCloseSidebar
    \/ mounted /\ onExplore
    \/ mounted /\ onHowItWorks
    \/ mounted /\ \E a \in Selectable : onSelectAssetMap(a)
    \/ mounted /\ onClose
    \/ mounted /\ \E a \in Selectable : onSelectAssetGov(a)
    \/ mounted /\ \E u \in Users : onLoginSuccess(u)
    \/ mounted /\ handleSearch
    \/ mounted /\ \E c \in 1..MaxCalls : \E r \in Responses : handleSearchResume(c, r)

ThemeSpec == ThemeInit /\ [][ThemeNext]_vars

-----------------------------------------------------------------------------
\* Properties

\* A step that requests the admin view: setCurrentTab('admin') from the
\* navbar or the sidebar, or a login-success callback that sets 'admin'.
adminRequested ==
    \/ onTabChange("admin")
    \/ \E u \in Users : onLoginSuccess(u) /\ currentTab' = "admin"

\* a is one of the records the store holds.
inStore(a) == \E i \in DOMAIN assets : assets[i] = a

isPrefix(s, t) == Len(s) <= Len(t) /\ SubSeq(t, 1, Len(s)) = s

\* The chunks of a response that carry a grounding payload, in response
\* order (none for a failed call or a response without chunks).
usableChunks(r) ==
    IF r.kind = "ok" /\ r.hasChunks THEN SelectSeq(r.chunks, LAMBDA ch : ch.maps) ELSE <<>>

\* C1 (as claimed): at most one provider call is outstanding in every
\* reachable state.
AtMostOneProviderCall == Cardinality(pending) <= 1

\* C2 (as claimed): a request for the admin view without an admin session
\* leaves login, never admin, as the current view state.
AdminRequestYieldsLoginTab ==
    [][(adminRequested /\ ~isAdmin(currentUser)) => currentTab' = "login"]_vars

\* C2 (amended): a request for the admin view without an admin session sets
\* the current tab to admin, and the content rendered for it is the login
\* page, never the admin dashboard.
AdminRequestRendersLogin ==
    [][(adminRequested /\ ~isAdmin(currentUser)) =>
          /\ currentTab' = "admin"
          /\ renderContent' = "LoginPage"]_vars

\* C2 witness: the admin tab is current without an admin session and the
\* login page is what is rendered.
AdminTabWithoutAdminSession ==
    currentTab = "admin" /\ ~isAdmin(currentUser) /\ renderContent = "LoginPage"

\* C3 (as claimed): the selected asset is none or an asset in the store.
SelectionValid == selectedAsset = null \/ inStore(selectedAsset)

\* C4 (as claimed): no two assets in the store share an id.
UniqueIds ==
    \A i, j \in DOMAIN assets : i # j => assets[i].id # assets[j].id

\* C5: across every step the store before the step is a prefix of the store
\* after it.
MonotonicAppend == [][isPrefix(assets, assets')]_vars

\* C5 witness: a discovery has appended to the store.
StoreHasGrown == Len(assets) > Len(initialAssets)

\* C6: a completion with one or more usable chunks appends one asset per
\* usable chunk after the existing assets, in response order, selects the
\* first of them and makes map the current view.
SuccessfulDiscoveryMerges ==
    [][\A c \in pending : \A r \in Responses :
          (handleSearchResume(c, r) /\ Len(usableChunks(r)) > 0) =>
             LET n == Len(assets)
                 k == Len(usableChunks(r))
             IN /\ Len(assets') = n + k
                /\ SubSeq(assets', 1, n) = assets
                /\ \A i \in 1..k :
                      assets'[n + i].name = assetName(usableChunks(r)[i])
                /\ selectedAsset' = assets'[n + 1]
                /\ currentTab' = "map"]_vars

\* C6 witness: the two chunks "Bridge X", "Bridge Y" were appended in that
\* order after the bootstrap assets, the first is selected, the view is map.
TwoChunksMerged ==
    /\ Len(assets) = Len(initialAssets) + 2
    /\ SubSeq(assets, 1, Len(initialAssets)) = initialAssets
    /\ assets[Len(initialAssets) + 1].name = "Bridge X"
    /\ assets[Len(initialAssets) + 2].name = "Bridge Y"
    /\ selectedAsset = assets[Len(initialAssets) + 1]
    /\ currentTab = "map"

\* C7: a completion with an error, without chunks or with only chunks that
\* lack the grounding payload leaves store, selection and view unchanged.
EmptyDiscoveryChangesNothing ==
    [][\A c \in pending : \A r \in Responses :
          (handleSearchResume(c, r) /\ Len(usableChunks(r)) = 0) =>
             UNCHANGED <<assets, selectedAsset, currentTab>>]_vars

\* C7 witness: every issued call has completed without a usable chunk, while
\* the user had a selection and had left the map view.
EmptyDiscoveryCompleted ==
    /\ issued >= 1
    /\ pending = {}
    /\ assets = initialAssets
    /\ selectedAsset # null
    /\ currentTab = "news"
    /\ ~isSearching

\* C8: every completion, whatever the response, takes the call out of the
\* outstanding ones and sets isSearching to false; and when every provider
\* call settles, isSearching true leads to isSearching false.
SearchInFlightResets ==
    /\ [][\A c \in pending : \A r \in Responses :
             handleSearchResume(c, r) => (~isSearching' /\ c \notin pending')]_vars
    /\ (isSearching ~> ~isSearching)

\* C8 witness: calls were issued, all have completed, isSearching is false.
AllCallsCompleted ==
    apiKeySet /\ issued = MaxCalls /\ pending = {} /\ ~isSearching

\* C9 (as claimed): selecting an asset that is not in the store, from the
\* map or from the gov portal, leaves the selection unchanged.
ForeignSelectionRejected ==
    [][\A a \in Selectable :
          ((onSelectAssetMap(a) \/ onSelectAssetGov(a)) /\ ~inStore(a)) =>
             selectedAsset' = selectedAsset]_vars

\* C10: a request for the admin view with an admin session makes admin the
\* current view, rendered as the admin dashboard.
AdminRequestGranted ==
    [][(adminRequested /\ isAdmin(currentUser)) =>
          /\ currentTab' = "admin"
          /\ renderContent' = "AdminDashboardPage"]_vars

\* C10 witness: the admin dashboard is rendered for an admin session.
AdminDashboardShown ==
    currentTab = "admin" /\ isAdmin(currentUser) /\ renderContent = "AdminDashboardPage"

\* C11 (as claimed): isSearching is true exactly while a provider call is
\* outstanding.
SearchingIffOutstanding == isSearching <=> (pending # {})

\* Number of assets of a sequence that carry a name.
countNamed(seq, name) == Cardinality({i \in DOMAIN seq : seq[i].name = name})

\* C12: a completion grows the store by exactly the number of chunks that
\* carry a grounding payload, and for every name the store afterwards holds
\* as many more assets of that name as usable chunks have it, whether or not
\* the store already held an asset of that name.
GrowthEqualsUsableChunks ==
    [][\A c \in pending : \A r \in Responses :
          handleSearchResume(c, r) =>
             LET usable == usableChunks(r)
                 named == [i \in DOMAIN usable |-> [name |-> assetName(usable[i])]]
             IN /\ Len(assets') = Len(assets) + Len(usable)
                /\ \A i \in DOMAIN usable :
                      countNamed(assets', named[i].name) =
                         countNamed(assets, named[i].name)
                         + countNamed(named, named[i].name)]_vars

\* C12 witness: "Bridge X" was discovered while the store held an asset of
\* that name, and the store holds both.
SameNameTwice == countNamed(assets, "Bridge X") >= 2

\* C13 (as claimed): the view state is always one of the ten views, and a
\* request for a name outside them leaves home as the current view.
ViewStateEnumerated ==
    [][/\ currentTab' \in Views
       /\ \A t \in TabNames \ Views : onTabChange(t) => currentTab' = "home"]_vars

\* The pages renderContent has for the ten views.
Pages == {"LandingPage", "MapComponent", "AnalysisPage", "NewsPage",
          "GovPortalPage", "LoginPage", "AdminDashboardPage",
          "InitiativesPage", "SimulatorPage", "ReportPage"}

\* C13 (amended): the rendered content is always a page of the ten views; a
\* request for a name outside them makes that name the current tab, and the
\* content rendered for it is the landing page, the page of home.
UnknownViewRendersLanding ==
    /\ [](renderContent \in Pages)
    /\ [][\A t \in TabNames \ Views :
             onTabChange(t) => (currentTab' = t /\ renderContent' = "LandingPage")]_vars

\* C13 witness: the current tab is a name outside the ten views and the
\* landing page is rendered.
UnknownTabShowsLanding == currentTab \notin Views /\ renderContent = "LandingPage"

ToggleFlipsAndPersists ==
    [][toggleTheme =>
          /\ isDarkMode' = ~isDarkMode
          /\ storedTheme' = (IF isDarkMode' THEN "dark" ELSE "light")
          /\ themeAfterToggle(isDarkMode') =
                [value |-> isDarkMode, stored |-> storedTheme]]_vars

\* C15 witness: the theme is dark and persisted as dark although neither the
\* OS nor the session's other state asked for it.
DarkPersisted == mounted /\ isDarkMode /\ storedTheme = "dark" /\ ~prefersDark

\* Call c overlapped another call: one is still outstanding, or one issued
\* after c has already completed.
overlapped(c) ==
    \/ pending \ {c} # {}
    \/ \E d \in (c + 1)..issued : d \notin pending

ViewTransitionFrame ==
    [][\A t \in TabNames :
          onTabChange(t) =>
             /\ currentTab' = t
             /\ UNCHANGED <<assets, selectedAsset, isSearching, pending,
                            isDarkMode, storedTheme>>]_vars

\* C17 witness: the user has left the map while a call is outstanding, with
\* a selection and the dark theme in place.
LeftMapWhileSearching ==
    /\ currentTab = "news"
    /\ pending # {}
    /\ isSearching
    /\ selectedAsset # null
    /\ isDarkMode
    /\ storedTheme = "dark"

\* C18: a login success on the login view makes admin the current view when
\* the user's role is admin and home otherwise; and the admin dashboard is
\* rendered only while the session's user is an admin.
LoginRoutesByRole ==
    /\ [][\A u \in Users :
             (onLoginSuccess(u) /\ currentTab = "login") =>
                currentTab' = (IF u.role = "admin" THEN "admin" ELSE "home")]_vars
    /\ [](renderContent = "AdminDashboardPage" => isAdmin(currentUser))

\* C18 witness: a signed-in user who is not an admin is on the admin tab and
\* is shown the login page.
NonAdminUserAtAdminTab ==
    /\ currentTab = "admin"
    /\ currentUser.present
    /\ currentUser.role = "engineer"
    /\ renderContent # "AdminDashboardPage"

====
